---- MODULE Spec2Model ----
(***************************************************************************)
(* A model of the restaurant reservation tool server (src/server.py) and   *)
(* of the tolerant JSON extraction of its client (src/client.py).          *)
(*                                                                         *)
(* Text that the program inspects character by character (dates, times,    *)
(* e-mail addresses, identifiers, ISO timestamps, JSON text) is a sequence *)
(* of one-character strings.  Text the program only carries around         *)
(* (names, addresses, fixed messages) is a TLA+ string.                    *)
(***************************************************************************)
EXTENDS Integers, Sequences, FiniteSets, TLC

VARIABLES
    reservations_db,   \* server.py:46, the process-wide list of Reservation
    files,             \* the files written by open(filename, 'w'): name -> content
    opened,            \* the file names handed to subprocess.run(["open", ...])
    call,              \* the tool call (or routine) that made the last step
    result,            \* what that call returned, or the exception it raised
    confirmations,     \* history: the success mappings make_reservation returned
    client             \* client.py:37-136, the assistant: where its loop stands and its locals

vars == <<reservations_db, files, opened, call, result, confirmations, client>>

(***************************************************************************)
(* Characters and strings                                                  *)
(***************************************************************************)
Digits == <<"0", "1", "2", "3", "4", "5", "6", "7", "8", "9">>

UpperChars == <<"A", "B", "C", "D", "E", "F", "G", "H", "I", "J", "K", "L", "M",
                "N", "O", "P", "Q", "R", "S", "T", "U", "V", "W", "X", "Y", "Z">>

LowerChars == <<"a", "b", "c", "d", "e", "f", "g", "h", "i", "j", "k", "l", "m",
                "n", "o", "p", "q", "r", "s", "t", "u", "v", "w", "x", "y", "z">>

IsDigit(c) == \E i \in 1..10 : Digits[i] = c

DigitVal(c) == (CHOOSE i \in 1..10 : Digits[i] = c) - 1

\* str.lower() on one character
LowerChar(c) ==
    IF \E i \in 1..26 : UpperChars[i] = c
    THEN LowerChars[CHOOSE i \in 1..26 : UpperChars[i] = c]
    ELSE c

\* str.upper() on one character
UpperChar(c) ==
    IF \E i \in 1..26 : LowerChars[i] = c
    THEN UpperChars[CHOOSE i \in 1..26 : LowerChars[i] = c]
    ELSE c

lower(s) == [i \in 1..Len(s) |-> LowerChar(s[i])]

upper(s) == [i \in 1..Len(s) |-> UpperChar(s[i])]

\* s[:n] for n >= 0
Prefix(s, n) == SubSeq(s, 1, IF n < Len(s) THEN n ELSE Len(s))

\* the character at position p (1-based), "" past the end
At(s, p) == IF p >= 1 /\ p <= Len(s) THEN s[p] ELSE ""

\* body(once) with once bound to the value of bound, which is computed once
With(bound, body(_)) == CHOOSE chosen \in {body(once) : once \in {bound}} : TRUE

\* the decimal value of a run of digits
RECURSIVE NumVal(_)
NumVal(s) ==
    IF s = <<>> THEN 0 ELSE 10 * NumVal(SubSeq(s, 1, Len(s) - 1)) + DigitVal(s[Len(s)])

\* n written with at least w digits, zero-padded (the %0wd of isoformat)
RECURSIVE Pad(_, _)
Pad(n, w) ==
    IF w <= 1 /\ n < 10 THEN <<Digits[n + 1]>>
    ELSE Pad(n \div 10, w - 1) \o <<Digits[(n % 10) + 1]>>

(***************************************************************************)
(* datetime: the proleptic Gregorian calendar of the standard library      *)
(***************************************************************************)
is_leap(y) == y % 4 = 0 /\ (y % 100 # 0 \/ y % 400 = 0)

DAYS_IN_MONTH == <<31, 28, 31, 30, 31, 30, 31, 31, 30, 31, 30, 31>>

days_in_month(y, m) == IF m = 2 /\ is_leap(y) THEN 29 ELSE DAYS_IN_MONTH[m]

days_before_year(y) ==
    LET p == y - 1 IN p * 365 + (p \div 4) - (p \div 100) + (p \div 400)

RECURSIVE days_before_month(_, _)
days_before_month(y, m) ==
    IF m = 1 THEN 0 ELSE days_before_month(y, m - 1) + days_in_month(y, m - 1)

ymd2ord(y, m, d) == days_before_year(y) + days_before_month(y, m) + d

\* the month holding day-of-year n (1-based) of year y, searched from month m
RECURSIVE month_of(_, _, _)
month_of(y, n, m) ==
    IF n <= days_before_month(y, m) + days_in_month(y, m) THEN m
    ELSE month_of(y, n, m + 1)

\* 146097, 36524 and 1461 are the days in 400, 100 and 4 years
ord2ymd(ordinal) ==
    LET n0 == ordinal - 1
        n400 == n0 \div 146097
        r400 == n0 % 146097
        n100 == r400 \div 36524
        r100 == r400 % 36524
        n4 == r100 \div 1461
        r4 == r100 % 1461
        n1 == r4 \div 365
        r1 == r4 % 365
        y == n400 * 400 + 1 + n100 * 100 + n4 * 4 + n1
    IN  IF n1 = 4 \/ n100 = 4
        THEN [year |-> y - 1, month |-> 12, day |-> 31]
        ELSE LET m == month_of(y, r1 + 1, 1)
             IN  [year |-> y, month |-> m, day |-> r1 + 1 - days_before_month(y, m)]

\* datetime + timedelta(minutes=n): the ordinal day and the minute of the day
\* are carried separately; OverflowError outside the years 1..9999
datetime_add(dt, n) ==
    With(dt.hour * 60 + dt.minute + n, LAMBDA mins :
        With(ymd2ord(dt.year, dt.month, dt.day) + (mins \div 1440), LAMBDA days :
            IF days < 1 \/ days > ymd2ord(9999, 12, 31)
            THEN [ok |-> FALSE]
            ELSE With(ord2ymd(days), LAMBDA d :
                    [ok |-> TRUE,
                     dt |-> [year |-> d.year, month |-> d.month, day |-> d.day,
                             hour |-> (mins % 1440) \div 60, minute |-> mins % 60]])))

\* datetime.isoformat() of a datetime with zero seconds and microseconds
isoformat(datetime) ==
    With(datetime, LAMBDA dt :
        Pad(dt.year, 4) \o <<"-">> \o Pad(dt.month, 2) \o <<"-">> \o Pad(dt.day, 2)
            \o <<"T">> \o Pad(dt.hour, 2) \o <<":">> \o Pad(dt.minute, 2) \o <<":", "0", "0">>)

(***************************************************************************)
(* datetime.strptime: the format directives are matched left to right, each *)
(* trying its two-character forms before its one-character form, and the   *)
(* whole text must be consumed.  A directive returns the number of          *)
(* characters it takes at position p, 0 when it does not match.             *)
(***************************************************************************)
\* %Y: \d\d\d\d
dir_Y(s, p) ==
    IF IsDigit(At(s, p)) /\ IsDigit(At(s, p + 1)) /\ IsDigit(At(s, p + 2)) /\ IsDigit(At(s, p + 3))
    THEN 4 ELSE 0

\* %m: 1[0-2]|0[1-9]|[1-9]
dir_m(s, p) ==
    LET a == At(s, p)
        b == At(s, p + 1)
    IN  IF a = "1" /\ b \in {"0", "1", "2"} THEN 2
        ELSE IF a = "0" /\ IsDigit(b) /\ b # "0" THEN 2
        ELSE IF IsDigit(a) /\ a # "0" THEN 1
        ELSE 0

\* %d: 3[0-1]|[1-2]\d|0[1-9]|[1-9]| [1-9]
dir_d(s, p) ==
    LET a == At(s, p)
        b == At(s, p + 1)
    IN  IF a = "3" /\ b \in {"0", "1"} THEN 2
        ELSE IF a \in {"1", "2"} /\ IsDigit(b) THEN 2
        ELSE IF a = "0" /\ IsDigit(b) /\ b # "0" THEN 2
        ELSE IF IsDigit(a) /\ a # "0" THEN 1
        ELSE IF a = " " /\ IsDigit(b) /\ b # "0" THEN 2
        ELSE 0

\* %H: 2[0-3]|[0-1]\d|\d
dir_H(s, p) ==
    LET a == At(s, p)
        b == At(s, p + 1)
    IN  IF a = "2" /\ b \in {"0", "1", "2", "3"} THEN 2
        ELSE IF a \in {"0", "1"} /\ IsDigit(b) THEN 2
        ELSE IF IsDigit(a) THEN 1
        ELSE 0

\* %M: [0-5]\d|\d
dir_M(s, p) ==
    LET a == At(s, p)
        b == At(s, p + 1)
    IN  IF a \in {"0", "1", "2", "3", "4", "5"} /\ IsDigit(b) THEN 2
        ELSE IF IsDigit(a) THEN 1
        ELSE 0

\* a literal character of the format
dir_lit(s, p, c) == IF At(s, p) = c THEN 1 ELSE 0

\* a space of the format: \s+
RECURSIVE dir_space(_, _)
dir_space(s, p) == IF At(s, p) = " " THEN 1 + dir_space(s, p + 1) ELSE 0

\* the characters the directive or literal f of a format takes at position p
dir(f, s, p) ==
    CASE f = "%Y" -> dir_Y(s, p)
      [] f = "%m" -> dir_m(s, p)
      [] f = "%d" -> dir_d(s, p)
      [] f = "%H" -> dir_H(s, p)
      [] f = "%M" -> dir_M(s, p)
      [] f = " " -> dir_space(s, p)
      [] OTHER -> dir_lit(s, p, f)

\* the digits of a field, a leading space of %d dropped
FieldVal(s, p, n) ==
    NumVal(IF s[p] = " " THEN SubSeq(s, p + 1, p + n - 1) ELSE SubSeq(s, p, p + n - 1))

\* the fields found matching the format fmt against s from position p on,
\* added to found; the whole of s must be consumed
RECURSIVE match(_, _, _, _)
match(s, fmt, p, found) ==
    IF fmt = <<>>
    THEN (IF p = Len(s) + 1 THEN [ok |-> TRUE, found |-> found] ELSE [ok |-> FALSE])
    ELSE With(dir(Head(fmt), s, p), LAMBDA n :
            IF n = 0 THEN [ok |-> FALSE]
            ELSE match(s, Tail(fmt), p + n,
                       IF Head(fmt) \in {"%Y", "%m", "%d", "%H", "%M"}
                       THEN [found EXCEPT ![Head(fmt)] = FieldVal(s, p, n)]
                       ELSE found))

NoFields == [f \in {"%Y", "%m", "%d", "%H", "%M"} |-> 0]

\* the datetime the matched fields denote: ValueError for year 0 and for a
\* day the month does not have
datetime_of(f) ==
    IF f["%Y"] < 1 \/ f["%d"] > days_in_month(f["%Y"], f["%m"])
    THEN [ok |-> FALSE]
    ELSE [ok |-> TRUE,
          dt |-> [year |-> f["%Y"], month |-> f["%m"], day |-> f["%d"],
                  hour |-> f["%H"], minute |-> f["%M"]]]

\* datetime.strptime(text, fmt); [ok |-> FALSE] stands for ValueError
strptime(text, fmt) ==
    With(text, LAMBDA s :
        With(match(s, fmt, 1, NoFields), LAMBDA m :
            IF ~m.ok THEN [ok |-> FALSE] ELSE datetime_of(m.found)))

\* the format "%Y-%m-%d"
DateFormat == <<"%Y", "-", "%m", "-", "%d">>

\* the format "%Y-%m-%d %H:%M"
DateTimeFormat == <<"%Y", "-", "%m", "-", "%d", " ", "%H", ":", "%M">>

strptime_date(s) == strptime(s, DateFormat)

strptime_datetime(s) == strptime(s, DateTimeFormat)

(***************************************************************************)
(* Outcomes of a routine: a returned value or a raised exception            *)
(***************************************************************************)
Return(v) == [raised |-> FALSE, value |-> v]

Raise(e) == [raised |-> TRUE, value |-> e]

\* the value before the first call
NoResult == [raised |-> FALSE, value |-> [none |-> TRUE]]

NoCall == [op |-> "none"]

\* the assistant is not running
NoClient == [pc |-> "none"]

(***************************************************************************)
(* make_reservation (server.py:236-302)                                     *)
(***************************************************************************)
\* the characters of a reservation identifier: str(uuid.uuid4())[:8]
IdLen == 8

\* a faulty variant of the stored record: the e-mail address is normalised to lower case
ReservationLowersEmail(reservation_id, a, reservation_datetime) ==
    [reservation_id |-> reservation_id,
     restaurant_name |-> a.restaurant_name,
     restaurant_address |-> a.restaurant_address,
     date_time |-> reservation_datetime,
     party_size |-> a.party_size,
     customer_name |-> a.customer_name,
     customer_email |-> lower(a.customer_email),
     special_requests |-> a.special_requests,
     status |-> "confirmed"]

\* the Reservation dataclass built at server.py:272-281, status defaulted
Reservation(reservation_id, a, reservation_datetime) ==
    [reservation_id |-> reservation_id,
     restaurant_name |-> a.restaurant_name,
     restaurant_address |-> a.restaurant_address,
     date_time |-> reservation_datetime,
     party_size |-> a.party_size,
     customer_name |-> a.customer_name,
     customer_email |-> a.customer_email,
     special_requests |-> a.special_requests,
     status |-> "confirmed"]

\* a faulty variant of the store: the new reservation is put first
StorePrepends(db, reservation) == <<reservation>> \o db

\* reservations_db.append(reservation), server.py:284
store_append(db, reservation) == Append(db, reservation)

\* the body of the try block: the new store and the outcome.  token is the
\* text of the uuid4 drawn by this call.
make_reservation_try(db, a, token) ==
    With(strptime_datetime(a.date \o <<" ">> \o a.time), LAMBDA parsed :
        IF ~parsed.ok
        THEN [db |-> db, out |-> Raise("ValueError")]
        ELSE LET reservation_id == upper(Prefix(token, IdLen))
                 reservation == Reservation(reservation_id, a, parsed.dt)
             IN  [db |-> store_append(db, reservation),
                  out |-> Return(
                      [status |-> "confirmed",
                       reservation_id |-> reservation_id,
                       restaurant_name |-> a.restaurant_name,
                       restaurant_address |-> a.restaurant_address,
                       date_time |-> isoformat(parsed.dt),
                       party_size |-> a.party_size,
                       customer_name |-> a.customer_name,
                       customer_email |-> a.customer_email,
                       special_requests |-> a.special_requests,
                       message |-> <<"Reservation confirmed for ", a.customer_name,
                                     " at ", a.restaurant_name, " on ", a.date,
                                     " at ", a.time, " for ", a.party_size, " people.">>])])

make_reservation(db, a, token) ==
    With(make_reservation_try(db, a, token), LAMBDA t :
        IF ~t.out.raised THEN t
        ELSE IF t.out.value = "ValueError"
        THEN [db |-> t.db, out |-> Return([error |-> "Invalid date/time format"])]
        ELSE [db |-> t.db, out |-> Return([error |-> "Reservation failed"])])

(***************************************************************************)
(* list_reservations (server.py:381-417)                                    *)
(***************************************************************************)
\* the text "none" reported when no filter is given
NoneText == <<"n", "o", "n", "e">>

\* the mapping emitted for one stored reservation
ReservationEntry(res) ==
    [reservation_id |-> res.reservation_id,
     restaurant_name |-> res.restaurant_name,
     restaurant_address |-> res.restaurant_address,
     date_time |-> isoformat(res.date_time),
     party_size |-> res.party_size,
     customer_name |-> res.customer_name,
     customer_email |-> res.customer_email,
     special_requests |-> res.special_requests,
     status |-> res.status]

\* a faulty variant of the filter: the addresses are compared as written
EmailMatchesExactly(res, customer_email) ==
    customer_email = <<>> \/ res.customer_email = customer_email

\* the condition of server.py:397
EmailMatches(res, customer_email) ==
    customer_email = <<>> \/ lower(res.customer_email) = lower(customer_email)

RECURSIVE filtered_reservations(_, _)
filtered_reservations(db, customer_email) ==
    IF db = <<>> THEN <<>>
    ELSE (IF EmailMatches(Head(db), customer_email)
          THEN <<ReservationEntry(Head(db))>> ELSE <<>>)
         \o filtered_reservations(Tail(db), customer_email)

list_reservations(db, customer_email) ==
    With(filtered_reservations(db, customer_email), LAMBDA filtered :
        Return([reservations |-> filtered,
                total_count |-> Len(filtered),
                filter_email |-> IF customer_email # <<>> THEN customer_email ELSE NoneText]))

(***************************************************************************)
(* generate_calendar_invite (server.py:304-379)                             *)
(***************************************************************************)
\* the default of duration_minutes
DefaultDuration == 90

\* a faulty variant of the lookup: the last reservation with the identifier is taken
LastReservationIndex(db, reservation_id) ==
    IF \E i \in 1..Len(db) : db[i].reservation_id = reservation_id
    THEN CHOOSE i \in 1..Len(db) :
            /\ db[i].reservation_id = reservation_id
            /\ \A j \in (i + 1)..Len(db) : db[j].reservation_id # reservation_id
    ELSE 0

\* a faulty variant of the lookup: identifiers are compared ignoring case
FindIgnoringCase(db, reservation_id) ==
    IF \E i \in 1..Len(db) : lower(db[i].reservation_id) = lower(reservation_id)
    THEN CHOOSE i \in 1..Len(db) :
            /\ lower(db[i].reservation_id) = lower(reservation_id)
            /\ \A j \in 1..(i - 1) : lower(db[j].reservation_id) # lower(reservation_id)
    ELSE 0

\* the loop of server.py:323-326: the index of the first reservation with
\* the identifier, 0 when the loop ends without one (reservation stays None)
find_reservation(db, reservation_id) ==
    IF \E i \in 1..Len(db) : db[i].reservation_id = reservation_id
    THEN CHOOSE i \in 1..Len(db) :
            /\ db[i].reservation_id = reservation_id
            /\ \A j \in 1..(i - 1) : db[j].reservation_id # reservation_id
    ELSE 0

\* the duration the call runs with
duration_of(a) == IF "duration_minutes" \in DOMAIN a THEN a.duration_minutes ELSE DefaultDuration

invite_filename(reservation_id) == <<"r", "e", "s", "e", "r", "v", "a", "t", "i", "o", "n", "_">> \o reservation_id \o <<".", "i", "c", "s">>

\* the body of the try block.  fault names the collaborator that raises in
\* this call: "ics" (building or serialising the calendar), "write"
\* (open(filename, 'w')), "open" (subprocess.run), or "none".
generate_calendar_invite_try(db, fs, op, a, fault) ==
    LET i == find_reservation(db, a.reservation_id)
        unchanged == [files |-> fs, opened |-> op]
    IN  IF i = 0
        THEN unchanged @@ [out |-> Return([error |-> "Reservation not found"])]
        ELSE
        LET reservation == db[i]
            duration_minutes == duration_of(a)
            filename == invite_filename(a.reservation_id)
        IN  With(datetime_add(reservation.date_time, duration_minutes), LAMBDA end :
            IF ~end.ok THEN unchanged @@ [out |-> Raise("OverflowError")]
            ELSE IF fault = "ics" THEN unchanged @@ [out |-> Raise("ValueError")]
            ELSE
            LET event_name == <<"Dinner at ", reservation.restaurant_name>>
                ics_content ==
                    [name |-> event_name,
                     begin |-> reservation.date_time,
                     end |-> end.dt,
                     description |-> <<reservation.restaurant_name,
                                       reservation.restaurant_address,
                                       reservation.party_size,
                                       reservation.reservation_id,
                                       reservation.special_requests>>,
                     location |-> reservation.restaurant_address]
                written == [f \in DOMAIN fs \cup {filename} |->
                               IF f = filename THEN ics_content ELSE fs[f]]
            IN  IF fault = "write" THEN unchanged @@ [out |-> Raise("OSError")]
                ELSE IF fault = "open"
                THEN [files |-> written, opened |-> op, out |-> Raise("FileNotFoundError")]
                ELSE [files |-> written,
                      opened |-> op \cup {filename},
                      out |-> Return(
                          [status |-> "success",
                           reservation_id |-> a.reservation_id,
                           filename |-> filename,
                           event_title |-> event_name,
                           event_start |-> isoformat(reservation.date_time),
                           event_end |-> isoformat(end.dt),
                           location |-> reservation.restaurant_address,
                           ics_content |-> ics_content,
                           message |-> <<"Calendar invite generated: ", filename>>])])

generate_calendar_invite(db, fs, op, a, fault) ==
    With(generate_calendar_invite_try(db, fs, op, a, fault), LAMBDA t :
        IF ~t.out.raised THEN t
        ELSE [files |-> t.files, opened |-> t.opened,
              out |-> Return([error |-> "Failed to generate calendar invite"])])

(***************************************************************************)
(* get_available_slots (server.py:193-234)                                  *)
(***************************************************************************)
base_times ==
    <<<<"1", "7", ":", "0", "0">>,
      <<"1", "7", ":", "3", "0">>,
      <<"1", "8", ":", "0", "0">>,
      <<"1", "8", ":", "3", "0">>,
      <<"1", "9", ":", "0", "0">>,
      <<"1", "9", ":", "3", "0">>,
      <<"2", "0", ":", "0", "0">>,
      <<"2", "0", ":", "3", "0">>,
      <<"2", "1", ":", "0", "0">>>>

\* the code points of the characters of a time, in ascending order
CodeOrder == <<"0", "1", "2", "3", "4", "5", "6", "7", "8", "9", ":">>

CharCode(c) == CHOOSE i \in 1..Len(CodeOrder) : CodeOrder[i] = c

\* s < t for two strings, as Python compares them
RECURSIVE StrLess(_, _)
StrLess(s, t) ==
    IF t = <<>> THEN FALSE
    ELSE IF s = <<>> THEN TRUE
    ELSE IF Head(s) # Head(t) THEN CharCode(Head(s)) < CharCode(Head(t))
    ELSE StrLess(Tail(s), Tail(t))

\* x put into the ascending list l, after the elements not greater than it
RECURSIVE Insert(_, _)
Insert(x, l) ==
    IF l = <<>> THEN <<x>>
    ELSE IF StrLess(x, Head(l)) THEN <<x>> \o l
    ELSE <<Head(l)>> \o Insert(x, Tail(l))

\* a faulty variant of list.sort(): the list is left as sampled
SortKeepsOrder(l) == l

\* list.sort() of a list of strings
RECURSIVE sort(_)
sort(l) ==
    IF l = <<>> THEN <<>>
    ELSE With(sort(SubSeq(l, 1, Len(l) - 1)), LAMBDA sorted : Insert(l[Len(l)], sorted))

\* the body of the try block.  sample is the outcome of
\* random.sample(base_times, k=random.randint(4, 7)): a list of positions.
get_available_slots_try(a, sample) ==
    With(strptime_date(a.date), LAMBDA target_date :
        IF ~target_date.ok THEN Raise("ValueError")
        ELSE With([i \in 1..Len(sample) |-> base_times[sample[i]]], LAMBDA sampled :
                Return([restaurant_name |-> a.restaurant_name,
                        date |-> a.date,
                        party_size |-> a.party_size,
                        available_slots |-> sort(sampled),
                        note |-> "These are mock time slots."])))

get_available_slots(a, sample) ==
    With(get_available_slots_try(a, sample), LAMBDA t :
        IF ~t.raised THEN t
        ELSE IF t.value = "ValueError"
        THEN Return([error |-> "Invalid date format. Use YYYY-MM-DD"])
        ELSE Return([error |-> "Could not get available slots"]))

(***************************************************************************)
(* search_restaurants and get_restaurant_details (server.py:71-191)         *)
(* Ratings are counted in tenths: 45 stands for 4.5.                        *)
(***************************************************************************)
\* dict.get(key, default)
Get(d, key, default) == IF key \in DOMAIN d THEN d[key] ELSE default

\* a faulty variant of the slice: nothing is cut
SliceKeepsAll(s, n) == s

\* s[:n] for any integer n
Slice(s, n) ==
    IF n >= 0 THEN Prefix(s, n)
    ELSE Prefix(s, IF Len(s) + n > 0 THEN Len(s) + n ELSE 0)


\* the condition of server.py:134
RatingPasses(r, min_rating) == Get(r, "rating", 0) >= min_rating

\* the mapping built at server.py:135-143
Summary(r) ==
    [place_id |-> Get(r, "place_id", ""),
     name |-> Get(r, "name", "Unknown"),
     address |-> Get(r, "vicinity", ""),
     rating |-> Get(r, "rating", 0),
     price_level |-> Get(r, "price_level", 0),
     types |-> Get(r, "types", <<>>),
     open_now |-> Get(Get(r, "opening_hours", <<>>), "open_now", "None")]

RECURSIVE rated(_, _)
rated(results, min_rating) ==
    IF results = <<>> THEN <<>>
    ELSE (IF RatingPasses(Head(results), min_rating)
          THEN <<Summary(Head(results))>> ELSE <<>>)
         \o rated(Tail(results), min_rating)

\* details names what the details lookup does in this call: "raise", "empty"
\* (a reply without "result") or "ok"
get_restaurant_details(api_key, place_id, details) ==
    IF ~api_key \/ place_id = "" THEN <<>>
    ELSE IF details = "ok"
    THEN [phone |-> "555-0100", website |-> "https://example.org",
          opening_hours |-> <<"Mon: 5-10 PM">>]
    ELSE <<>>

\* restaurant.update(details)
Update(restaurant, details) ==
    [k \in DOMAIN restaurant \cup DOMAIN details |->
        IF k \in DOMAIN details THEN details[k] ELSE restaurant[k]]

\* the body of the try block.  env holds what the collaborators do in this
\* call: geocode in {"raise", "empty", "ok"}, places a record with
\* raises |-> TRUE or the decoded reply in data, details as above.
search_restaurants_try(a, env) ==
    IF env.geocode = "raise" THEN Raise("RequestException")
    ELSE IF env.geocode = "empty" THEN Return([error |-> "Could not find location"])
    ELSE IF env.places.raises THEN Raise("RequestException")
    ELSE IF "results" \notin DOMAIN env.places.data
    THEN Return([error |-> "No restaurants found"])
    ELSE
    With(rated(Slice(env.places.data.results, a.max_results), a.min_rating),
         LAMBDA restaurants :
        With(Prefix(restaurants, 5), LAMBDA top :
            Return([restaurants |->
                        [i \in 1..Len(top) |->
                            Update(top[i],
                                   get_restaurant_details(TRUE, top[i].place_id, env.details))],
                    total_found |-> Len(restaurants),
                    search_location |-> a.location,
                    coordinates |-> [lat |-> "lat", lng |-> "lng"]])))

search_restaurants(a, env) ==
    IF ~env.api_key THEN Return([error |-> "Google Places API key not configured"])
    ELSE With(search_restaurants_try(a, env), LAMBDA t :
            IF ~t.raised THEN t ELSE Return([error |-> "Search failed"]))

(***************************************************************************)
(* The inputs and collaborator outcomes the model explores                  *)
(***************************************************************************)
\* the most reservations the store is let grow to
MaxReservations == 2

\* three outcomes of str(uuid.uuid4()): the first two differ but share their
\* first eight characters
UuidA == <<"3", "f", "9", "a", "1", "c", "0", "e", "-", "5", "2", "b", "7", "-", "4", "d", "1", "a", "-", "9", "c", "3", "e", "-", "0", "a", "1", "b", "2", "c", "3", "d", "4", "e", "5", "f">>
UuidB == <<"3", "f", "9", "a", "1", "c", "0", "e", "-", "7", "7", "a", "a", "-", "4", "e", "2", "1", "-", "8", "b", "1", "0", "-", "f", "f", "e", "e", "d", "d", "c", "c", "b", "b", "a", "a">>
UuidC == <<"b", "0", "7", "d", "2", "2", "c", "4", "-", "5", "2", "b", "7", "-", "4", "d", "1", "a", "-", "9", "c", "3", "e", "-", "0", "a", "1", "b", "2", "c", "3", "d", "4", "e", "5", "f">>

EmailLower == <<"a", "@", "x", ".", "c", "o", "m">>
EmailUpper == <<"A", "@", "X", ".", "c", "o", "m">>
EmailOther == <<"b", "@", "y", ".", "o", "r", "g">>
EmailAbsent == <<"z", "@", "x", ".", "c", "o", "m">>

Date1 == <<"2", "0", "2", "4", "-", "0", "2", "-", "2", "8">>
Date2 == <<"2", "0", "2", "4", "-", "1", "2", "-", "3", "1">>
DateShort == <<"2", "0", "2", "5", "-", "3", "-", "9">>
DateNoSuchDay == <<"2", "0", "2", "4", "-", "0", "2", "-", "3", "0">>
DateWords == <<"t", "o", "n", "i", "g", "h", "t">>
Time1 == <<"1", "9", ":", "0", "0">>
Time2 == <<"2", "3", ":", "3", "0">>
TimeShort == <<"7", ":", "5">>
TimeNoSuchHour == <<"2", "4", ":", "0", "0">>

Booking(name, address, date, time, party, customer, email, requests) ==
    [restaurant_name |-> name, restaurant_address |-> address, date |-> date,
     time |-> time, party_size |-> party, customer_name |-> customer,
     customer_email |-> email, special_requests |-> requests]

BookingAnn == Booking("Roma", "12 Via Appia", Date1, Time1, 2, "Ann", EmailLower, "")
BookingBob == Booking("Kyoto", "7 Gion St", Date2, Time2, 4, "Bob", EmailUpper, "window")
BookingCy == Booking("Roma", "12 Via Appia", DateShort, TimeShort, 0, "Cy", EmailOther, "")
BookingNoSuchDay == Booking("Roma", "12 Via Appia", DateNoSuchDay, Time1, 2, "Ann", EmailLower, "")
BookingNoSuchHour == Booking("Kyoto", "7 Gion St", Date1, TimeNoSuchHour, 2, "Bob", EmailUpper, "")

\* the make_reservation calls tried, each with the uuid it draws: four that
\* parse (two of them drawing uuids with the same first eight characters) and
\* two that do not
GoodBookings ==
    {<<BookingAnn, UuidA>>, <<BookingBob, UuidB>>, <<BookingBob, UuidC>>, <<BookingCy, UuidC>>}
BadBookings == {<<BookingNoSuchDay, UuidA>>, <<BookingNoSuchHour, UuidC>>}
Bookings == GoodBookings \cup BadBookings

\* the list_reservations filters tried
EmailFilters == {<<>>, EmailLower, upper(EmailOther), EmailAbsent}

\* the generate_calendar_invite arguments tried: the identifiers the uuids
\* give, and one of them in lower case
InviteIds == {upper(Prefix(UuidA, IdLen)), upper(Prefix(UuidC, IdLen)), Prefix(UuidA, IdLen)}
InviteFaults == {"none", "ics", "write", "open"}
DefaultInviteArgs == {[reservation_id |-> id] : id \in InviteIds}
InviteArgs ==
    DefaultInviteArgs
        \cup {[reservation_id |-> id, duration_minutes |-> d] :
                id \in InviteIds, d \in {45, 0, 1500, -30}}

\* the outcomes of random.sample(base_times, k) for k in 4..7, as positions
\* of base_times: every choice of k positions, in ascending and in descending order
RECURSIVE Ascending(_)
Ascending(S) ==
    IF S = {} THEN <<>>
    ELSE LET m == CHOOSE x \in S : \A y \in S : x <= y IN <<m>> \o Ascending(S \ {m})
RECURSIVE Descending(_)
Descending(S) ==
    IF S = {} THEN <<>>
    ELSE LET m == CHOOSE x \in S : \A y \in S : x >= y IN <<m>> \o Descending(S \ {m})
SampleSets == {S \in SUBSET (1..Len(base_times)) : Cardinality(S) \in 4..7}
Samples == {Ascending(S) : S \in SampleSets} \cup {Descending(S) : S \in SampleSets}

SlotArgs ==
    {[restaurant_name |-> n, date |-> d, party_size |-> 2] :
        n \in {"Roma", "Kyoto"}, d \in {Date1, DateShort, DateNoSuchDay, DateWords}}

\* the slot lookups the tool server is driven with beside the store operations
FewSlotCalls ==
    {<<[restaurant_name |-> "Roma", date |-> Date1, party_size |-> 2], <<9, 1, 5, 3>> >>,
     <<[restaurant_name |-> "Roma", date |-> DateWords, party_size |-> 2], <<2, 8, 7, 6, 5, 4, 3>> >>}

\* the longest upstream result list explored
MaxUpstream == 6

\* three upstream records: well rated, poorly rated, and one that carries
\* neither a rating nor a place_id
PlaceGood == [place_id |-> "p1", name |-> "Roma", vicinity |-> "12 Via Appia", rating |-> 45]
PlacePoor == [place_id |-> "p2", name |-> "Kyoto", vicinity |-> "7 Gion St", rating |-> 35,
              price_level |-> 2]
PlaceBare == [name |-> "Nameless"]
Places == {PlaceGood, PlacePoor, PlaceBare}

UpstreamLists == UNION {[1..n -> Places] : n \in 0..MaxUpstream}

SearchArgs ==
    {[location |-> "Los Angeles, CA", cuisine_type |-> "Italian", radius |-> 5000,
      min_rating |-> r, max_results |-> m, special_requirements |-> "", party_size |-> 2] :
        r \in {40, 0}, m \in {10, 2, 0, -1}}

Env(key, geocode, places, details) ==
    [api_key |-> key, geocode |-> geocode, places |-> places, details |-> details]

PlacesRaises == [raises |-> TRUE]
PlacesReply(data) == [raises |-> FALSE, data |-> data]

\* the collaborator outcomes in which the search does not reach the result loop
FailingEnvs ==
    {Env(FALSE, "ok", PlacesReply([status |-> "OK", results |-> <<PlaceGood>>]), "ok"),
     Env(TRUE, "raise", PlacesRaises, "ok"),
     Env(TRUE, "empty", PlacesRaises, "ok"),
     Env(TRUE, "ok", PlacesRaises, "ok"),
     Env(TRUE, "ok", PlacesReply([status |-> "INVALID_REQUEST"]), "ok")}

\* every upstream list, with the details lookup finding, missing or raising
SearchEnvs ==
    FailingEnvs \cup
    {Env(TRUE, "ok", PlacesReply([status |-> "OK", results |-> l]), d) :
        l \in UpstreamLists, d \in {"ok", "empty", "raise"}}

\* the searches the tool server is driven with beside the store operations
FewSearchArgs == {a \in SearchArgs : a.min_rating = 40 /\ a.max_results = 10}
FewSearchEnvs ==
    FailingEnvs \cup
    {Env(TRUE, "ok", PlacesReply([status |-> "ZERO_RESULTS", results |-> <<>>]), "ok"),
     Env(TRUE, "ok", PlacesReply([status |-> "OK",
                                  results |-> <<PlaceGood, PlacePoor, PlaceGood>>]), "ok")}

(***************************************************************************)
(* The tool server: one action per tool call                                *)
(***************************************************************************)
Init ==
    /\ reservations_db = <<>>
    /\ files = <<>>
    /\ opened = {}
    /\ call = NoCall
    /\ result = NoResult
    /\ confirmations = {}
    /\ client = NoClient

SearchRestaurantsCall ==
    \E a \in FewSearchArgs, env \in FewSearchEnvs :
        /\ call' = [op |-> "search_restaurants", args |-> a, env |-> env]
        /\ result' = search_restaurants(a, env)
        /\ UNCHANGED <<reservations_db, files, opened, confirmations, client>>

GetAvailableSlotsCall ==
    \E c \in FewSlotCalls :
        /\ call' = [op |-> "get_available_slots", args |-> c[1], env |-> c[2]]
        /\ result' = get_available_slots(c[1], c[2])
        /\ UNCHANGED <<reservations_db, files, opened, confirmations, client>>

\* the success mappings returned so far, with one more when out is a success
Confirmed(seen, out) ==
    IF "error" \in DOMAIN out.value THEN seen ELSE seen \cup {out.value}

MakeReservationCall ==
    \E b \in Bookings :
        \E r \in {make_reservation(reservations_db, b[1], b[2])} :
            /\ Len(r.db) <= MaxReservations
            /\ call' = [op |-> "make_reservation", args |-> b[1], env |-> b[2]]
            /\ reservations_db' = r.db
            /\ result' = r.out
            /\ confirmations' = Confirmed(confirmations, r.out)
            /\ UNCHANGED <<files, opened, client>>

GenerateCalendarInviteCall ==
    \E a \in DefaultInviteArgs, fault \in InviteFaults :
        \E r \in {generate_calendar_invite(reservations_db, files, opened, a, fault)} :
            /\ call' = [op |-> "generate_calendar_invite", args |-> a, env |-> fault]
            /\ files' = r.files
            /\ opened' = r.opened
            /\ result' = r.out
            /\ UNCHANGED <<reservations_db, confirmations, client>>

ListReservationsCall ==
    \E e \in EmailFilters :
        /\ call' = [op |-> "list_reservations", args |-> [customer_email |-> e], env |-> "none"]
        /\ result' = list_reservations(reservations_db, e)
        /\ UNCHANGED <<reservations_db, files, opened, confirmations, client>>

Next ==
    \/ SearchRestaurantsCall
    \/ GetAvailableSlotsCall
    \/ MakeReservationCall
    \/ GenerateCalendarInviteCall
    \/ ListReservationsCall

Spec == Init /\ [][Next]_vars

(***************************************************************************)
(* Properties of the reservation store                                      *)
(***************************************************************************)
Succeeded(out) == ~out.raised /\ "error" \notin DOMAIN out.value

\* the entry e of a listing carries the fields the success mapping c echoed
SameFields(e, c) ==
    /\ e.reservation_id = c.reservation_id
    /\ e.restaurant_name = c.restaurant_name
    /\ e.restaurant_address = c.restaurant_address
    /\ e.date_time = c.date_time
    /\ e.party_size = c.party_size
    /\ e.customer_name = c.customer_name
    /\ e.customer_email = c.customer_email
    /\ e.special_requests = c.special_requests

\* C1: every reservation that make_reservation has confirmed is, in every
\* later state, in the unfiltered listing with the fields that call echoed
\* and status confirmed.
ConfirmedStaysListed ==
    \A listing \in {list_reservations(reservations_db, <<>>)} :
        /\ Succeeded(listing)
        /\ \A c \in confirmations :
              \E i \in 1..Len(listing.value.reservations) :
                  /\ SameFields(listing.value.reservations[i], c)
                  /\ listing.value.reservations[i].status = "confirmed"

\* two confirmed reservations, the second stored under the identifier of the
\* first, and a listing asked for afterwards
ConfirmedStaysListedWitness ==
    /\ Cardinality(confirmations) = 2
    /\ Len(reservations_db) = 2
    /\ reservations_db[1].reservation_id = reservations_db[2].reservation_id
    /\ call.op = "list_reservations"
    /\ call.args.customer_email = <<>>

\* C2: no two stored reservations have the same reservation_id.
UniqueIdentifiers ==
    \A i, j \in 1..Len(reservations_db) :
        i # j => reservations_db[i].reservation_id # reservations_db[j].reservation_id

\* C3: a step leaves the store as it is or appends one confirmed reservation
\* to it, and it appends exactly when it is a make_reservation call that
\* returns success.
AppendOnly ==
    [][/\ \/ reservations_db' = reservations_db
          \/ /\ Len(reservations_db') = Len(reservations_db) + 1
             /\ SubSeq(reservations_db', 1, Len(reservations_db)) = reservations_db
       /\ \A i \in 1..Len(reservations_db') : reservations_db'[i].status = "confirmed"
       /\ (reservations_db' # reservations_db)
              <=> (call'.op = "make_reservation" /\ Succeeded(result'))]_vars

\* a make_reservation call that returned an error with two reservations stored
AppendOnlyWitness ==
    /\ Len(reservations_db) = 2
    /\ reservations_db[1] # reservations_db[2]
    /\ call.op = "make_reservation"
    /\ ~Succeeded(result)

\* c and d are the same character, or the two cases of one letter
SameLetter(c, d) ==
    c = d \/ \E k \in 1..26 : {c, d} = {UpperChars[k], LowerChars[k]}

EqualIgnoringCase(s, t) ==
    Len(s) = Len(t) /\ \A i \in 1..Len(s) : SameLetter(s[i], t[i])

\* the stored reservations a filter selects, in insertion order
Selected(db, e) ==
    SelectSeq(db, LAMBDA r : e = <<>> \/ EqualIgnoringCase(r.customer_email, e))

\* C4: list_reservations(E) returns no error and exactly the stored
\* reservations whose customer_email equals E ignoring case, in insertion
\* order, counted by total_count; with E empty it returns them all and
\* reports the filter as "none".
ListingIsTheSelection ==
    call.op = "list_reservations" =>
        \A e \in {call.args.customer_email} :
        \A sel \in {Selected(reservations_db, e)} :
            /\ Succeeded(result)
            /\ Len(result.value.reservations) = Len(sel)
            /\ result.value.total_count = Len(sel)
            /\ \A i \in 1..Len(sel) :
                  /\ SameFields(result.value.reservations[i],
                                [sel[i] EXCEPT !.date_time = isoformat(sel[i].date_time)])
                  /\ result.value.reservations[i].status = sel[i].status
            /\ (e = <<>> => /\ Len(sel) = Len(reservations_db)
                            /\ result.value.filter_email = NoneText)
            /\ (e # <<>> => result.value.filter_email = e)

\* reservations for a@x.com and A@X.com are stored and the listing for
\* a@x.com holds both
ListingIsTheSelectionWitness ==
    /\ call.op = "list_reservations"
    /\ call.args.customer_email = EmailLower
    /\ Len(reservations_db) = 2
    /\ {reservations_db[1].customer_email, reservations_db[2].customer_email}
           = {EmailLower, EmailUpper}
    /\ result.value.total_count = 2

Known(db, reservation_id) == \E i \in 1..Len(db) : db[i].reservation_id = reservation_id

\* C5: generate_calendar_invite with an identifier that no stored
\* reservation has returns an error, writes and opens no file and leaves
\* the store as it is.
UnknownIdentifierIsRefused ==
    [][(/\ call'.op = "generate_calendar_invite"
        /\ ~Known(reservations_db, call'.args.reservation_id))
          => /\ ~result'.raised
             /\ "error" \in DOMAIN result'.value
             /\ files' = files
             /\ opened' = opened
             /\ reservations_db' = reservations_db]_vars

\* the identifier asked for differs from a stored one only in case, after an
\* invite for the stored one has been written
UnknownIdentifierIsRefusedWitness ==
    /\ call.op = "generate_calendar_invite"
    /\ ~Known(reservations_db, call.args.reservation_id)
    /\ Known(reservations_db, upper(call.args.reservation_id))
    /\ DOMAIN files # {}
    /\ opened # {}
    /\ "error" \in DOMAIN result.value

(***************************************************************************)
(* generate_calendar_invite on every store the bookings can build           *)
(***************************************************************************)
\* the store and the history after one more booking
Booked(st, b) ==
    With(make_reservation(st.db, b[1], b[2]), LAMBDA r :
        [db |-> r.db, confirmations |-> Confirmed(st.confirmations, r.out)])

\* the stores of at most n reservations that make_reservation builds
RECURSIVE Stores(_)
Stores(n) ==
    IF n = 0 THEN {[db |-> <<>>, confirmations |-> {}]}
    ELSE With(Stores(n - 1), LAMBDA prev :
            prev \cup UNION {{Booked(st, b) : b \in Bookings} : st \in prev})

InitInvite ==
    /\ \E st \in Stores(MaxReservations) :
          /\ reservations_db = st.db
          /\ confirmations = st.confirmations
    /\ files = <<>>
    /\ opened = {}
    /\ call \in {[op |-> "generate_calendar_invite", args |-> a, env |-> fault] :
                    a \in InviteArgs, fault \in InviteFaults}
    /\ result = NoResult
    /\ client = NoClient

GenerateCalendarInviteApply ==
    /\ call.op = "generate_calendar_invite"
    /\ result = NoResult
    /\ \E r \in {generate_calendar_invite(reservations_db, files, opened, call.args, call.env)} :
          /\ files' = r.files
          /\ opened' = r.opened
          /\ result' = r.out
    /\ UNCHANGED <<reservations_db, call, confirmations, client>>

NextInvite == GenerateCalendarInviteApply

SpecInvite == InitInvite /\ [][NextInvite]_vars

\* the fields written in an ISO timestamp YYYY-MM-DDTHH:MM:SS
IsoFields(s) ==
    [year |-> NumVal(SubSeq(s, 1, 4)), month |-> NumVal(SubSeq(s, 6, 7)),
     day |-> NumVal(SubSeq(s, 9, 10)), hour |-> NumVal(SubSeq(s, 12, 13)),
     minute |-> NumVal(SubSeq(s, 15, 16))]

IsIso(s) ==
    /\ Len(s) = 19
    /\ s[5] = "-" /\ s[8] = "-" /\ s[11] = "T" /\ s[14] = ":" /\ s[17] = ":"
    /\ s[18] = "0" /\ s[19] = "0"
    /\ \A i \in {1, 2, 3, 4, 6, 7, 9, 10, 12, 13, 15, 16} : IsDigit(s[i])

\* the day number of a civil date, counted from 0000-03-01
CivilDays(y, m, d) ==
    LET yy == IF m <= 2 THEN y - 1 ELSE y
        mm == IF m <= 2 THEN m + 9 ELSE m - 3
    IN  yy * 365 + (yy \div 4) - (yy \div 100) + (yy \div 400) + ((153 * mm + 2) \div 5) + d - 1

\* the minutes from the ISO timestamp s to the ISO timestamp t
MinutesBetween(s, t) ==
    LET a == IsoFields(s)
        b == IsoFields(t)
    IN  (CivilDays(b.year, b.month, b.day) - CivilDays(a.year, a.month, a.day)) * 1440
            + (b.hour * 60 + b.minute) - (a.hour * 60 + a.minute)

\* the first stored reservation with the identifier
FirstWith(db, reservation_id) ==
    db[CHOOSE i \in 1..Len(db) :
          /\ db[i].reservation_id = reservation_id
          /\ \A j \in 1..(i - 1) : db[j].reservation_id # reservation_id]

InviteDone == call.op = "generate_calendar_invite" /\ result # NoResult

\* C6: generate_calendar_invite with a stored identifier and a duration D
\* (90 minutes when none is given) succeeds when no collaborator fails, and
\* its success mapping takes event_start and location from the first stored
\* reservation with that identifier, ends D minutes after it starts and
\* names the file reservation_<id>.ics.
InviteFollowsReservation ==
    (InviteDone /\ Known(reservations_db, call.args.reservation_id)) =>
        \A r \in {FirstWith(reservations_db, call.args.reservation_id)} :
        \A D \in {IF "duration_minutes" \in DOMAIN call.args
                  THEN call.args.duration_minutes ELSE 90} :
            /\ ~result.raised
            /\ call.env = "none" => Succeeded(result)
            /\ Succeeded(result) =>
                /\ IsIso(result.value.event_start)
                /\ IsIso(result.value.event_end)
                /\ IsoFields(result.value.event_start) = r.date_time
                /\ MinutesBetween(result.value.event_start, result.value.event_end) = D
                /\ result.value.filename =
                      <<"r", "e", "s", "e", "r", "v", "a", "t", "i", "o", "n", "_">>
                          \o call.args.reservation_id \o <<".", "i", "c", "s">>
                /\ result.value.location = r.restaurant_address

\* two reservations share the identifier but not the date, and an invite of
\* 1500 minutes was generated for it
InviteFollowsReservationWitness ==
    /\ InviteDone
    /\ Succeeded(result)
    /\ Len(reservations_db) = 2
    /\ reservations_db[1].reservation_id = call.args.reservation_id
    /\ reservations_db[2].reservation_id = call.args.reservation_id
    /\ reservations_db[1].date_time # reservations_db[2].date_time
    /\ reservations_db[1].restaurant_address # reservations_db[2].restaurant_address
    /\ "duration_minutes" \in DOMAIN call.args
    /\ call.args.duration_minutes = 1500

(***************************************************************************)
(* get_available_slots on every sample                                      *)
(***************************************************************************)
InitSlots ==
    /\ reservations_db = <<>>
    /\ files = <<>>
    /\ opened = {}
    /\ confirmations = {}
    /\ call \in {[op |-> "get_available_slots", args |-> a, env |-> sample] :
                    a \in SlotArgs, sample \in Samples}
    /\ result = NoResult
    /\ client = NoClient

GetAvailableSlotsApply ==
    /\ call.op = "get_available_slots"
    /\ result = NoResult
    /\ result' = get_available_slots(call.args, call.env)
    /\ UNCHANGED <<reservations_db, files, opened, call, confirmations, client>>

NextSlots == GetAvailableSlotsApply

SpecSlots == InitSlots /\ [][NextSlots]_vars

\* the minute of the day a time HH:MM names
MinuteOfDay(t) == NumVal(SubSeq(t, 1, 2)) * 60 + NumVal(SubSeq(t, 4, 5))

\* the nine candidate times: every half hour from 17:00 to 21:00
IsCandidate(t) ==
    /\ Len(t) = 5
    /\ t[3] = ":"
    /\ \E k \in 0..8 : MinuteOfDay(t) = 17 * 60 + 30 * k

\* C7: for a date that strptime accepts as %Y-%m-%d, get_available_slots
\* returns 4 to 7 of the nine candidate times in strictly ascending order and
\* echoes restaurant_name, date and party_size; for any other date it returns
\* a mapping whose only key is error.
SlotsAreSortedCandidates ==
    (call.op = "get_available_slots" /\ result # NoResult) =>
        /\ ~result.raised
        /\ IF strptime(call.args.date, <<"%Y", "-", "%m", "-", "%d">>).ok
           THEN \A slots \in {result.value.available_slots} :
                   /\ Len(slots) \in 4..7
                   /\ \A i \in 1..Len(slots) : IsCandidate(slots[i])
                   /\ \A i \in 1..(Len(slots) - 1) :
                         MinuteOfDay(slots[i]) < MinuteOfDay(slots[i + 1])
                   /\ result.value.restaurant_name = call.args.restaurant_name
                   /\ result.value.date = call.args.date
                   /\ result.value.party_size = call.args.party_size
           ELSE DOMAIN result.value = {"error"}

\* seven slots returned for a sample drawn in descending order and a date
\* written without leading zeros
SlotsAreSortedCandidatesWitness ==
    /\ call.op = "get_available_slots"
    /\ result # NoResult
    /\ call.args.date = DateShort
    /\ Len(call.env) = 7
    /\ call.env[1] > call.env[2]
    /\ Len(result.value.available_slots) = 7

\* a date the format refuses: the result is the error alone
SlotsRefuseBadDate ==
    /\ call.op = "get_available_slots"
    /\ result # NoResult
    /\ call.args.date = DateNoSuchDay
    /\ "error" \in DOMAIN result.value

(***************************************************************************)
(* search_restaurants on every upstream list                                *)
(***************************************************************************)
InitSearch ==
    /\ reservations_db = <<>>
    /\ files = <<>>
    /\ opened = {}
    /\ confirmations = {}
    /\ call \in {[op |-> "search_restaurants", args |-> a, env |-> env] :
                    a \in SearchArgs, env \in SearchEnvs}
    /\ result = NoResult
    /\ client = NoClient

SearchRestaurantsApply ==
    /\ call.op = "search_restaurants"
    /\ result = NoResult
    /\ result' = search_restaurants(call.args, call.env)
    /\ UNCHANGED <<reservations_db, files, opened, call, confirmations, client>>

NextSearch == SearchRestaurantsApply

SpecSearch == InitSearch /\ [][NextSearch]_vars

\* C9: a successful search returns no restaurant rated below min_rating and
\* no more than max_results restaurants.
SearchRespectsLimits ==
    (call.op = "search_restaurants" /\ result # NoResult /\ Succeeded(result)) =>
        /\ \A i \in 1..Len(result.value.restaurants) :
              result.value.restaurants[i].rating >= call.args.min_rating
        /\ Len(result.value.restaurants) <= call.args.max_results

\* the positions of the first max_results upstream records whose rating
\* (0 when the record has none) is at least min_rating
Passing ==
    {i \in 1..Len(call.env.places.data.results) :
        /\ i <= call.args.max_results
        /\ Get(call.env.places.data.results[i], "rating", 0) >= call.args.min_rating}

\* the i-th position of Passing in ascending order
NthPassing(i) == CHOOSE k \in Passing : Cardinality({j \in Passing : j <= k}) = i

\* C9, for max_results that is not negative: for every upstream list, every min_rating and every
\* max_results that is not negative, a successful search returns no
\* restaurant rated below min_rating and no more than max_results
\* restaurants; total_found counts the records that pass the rating among the
\* first max_results upstream records, and the restaurants returned are the
\* first five of those, in upstream order.
SearchRespectsLimitsNonNegative ==
    (/\ call.op = "search_restaurants"
     /\ result # NoResult
     /\ Succeeded(result)
     /\ call.args.max_results >= 0) =>
        /\ \A i \in 1..Len(result.value.restaurants) :
              result.value.restaurants[i].rating >= call.args.min_rating
        /\ Len(result.value.restaurants) <= call.args.max_results
        /\ result.value.total_found = Cardinality(Passing)
        /\ Len(result.value.restaurants) =
              (IF Cardinality(Passing) < 5 THEN Cardinality(Passing) ELSE 5)
        /\ \A i \in 1..Len(result.value.restaurants) :
              /\ result.value.restaurants[i].name =
                    call.env.places.data.results[NthPassing(i)].name
              /\ result.value.restaurants[i].rating =
                    Get(call.env.places.data.results[NthPassing(i)], "rating", 0)

\* six upstream records, one of them rated too low and cut by the rating, cut
\* to two by max_results: two restaurants returned, the poorly rated one skipped
SearchRespectsLimitsNonNegativeWitness ==
    /\ call.op = "search_restaurants"
    /\ result # NoResult
    /\ Succeeded(result)
    /\ call.args.max_results = 2
    /\ call.args.min_rating = 40
    /\ call.env.places.data.results =
          <<PlaceGood, PlaceGood, PlacePoor, PlaceGood, PlaceGood, PlaceGood>>
    /\ Len(result.value.restaurants) = 2
    /\ result.value.total_found = 2

\* six records pass the rating and five are returned
SearchReturnsFirstFive ==
    /\ call.op = "search_restaurants"
    /\ result # NoResult
    /\ Succeeded(result)
    /\ call.args.max_results = 10
    /\ result.value.total_found = 6
    /\ Len(result.value.restaurants) = 5

(***************************************************************************)
(* Every tool reports failure by the error key                              *)
(***************************************************************************)
\* the call in hand failed: what it was asked cannot be done, or a
\* collaborator did not deliver
Failed ==
    CASE call.op = "search_restaurants" ->
            \/ ~call.env.api_key
            \/ call.env.geocode # "ok"
            \/ call.env.places.raises
            \/ "results" \notin DOMAIN call.env.places.data
            \/ call.env.places.data.results = <<>>
      [] call.op = "get_available_slots" ->
            ~strptime(call.args.date, <<"%Y", "-", "%m", "-", "%d">>).ok
      [] call.op = "make_reservation" ->
            ~strptime(call.args.date \o <<" ">> \o call.args.time,
                      <<"%Y", "-", "%m", "-", "%d", " ", "%H", ":", "%M">>).ok
      [] call.op = "generate_calendar_invite" ->
            \/ ~Known(reservations_db, call.args.reservation_id)
            \/ call.env # "none"
      [] OTHER -> FALSE

\* C8: every tool call returns a mapping and never raises, and the mapping
\* holds the error key exactly when the call failed.
ToolsReportFailure ==
    call.op # "none" =>
        /\ ~result.raised
        /\ ("error" \in DOMAIN result.value) <=> Failed

(***************************************************************************)
(* parse_json_response (client.py:162-212)                                  *)
(* The text is a sequence of characters.  A decoded JSON value is a record  *)
(* [t, v]: t names its kind and v holds an object as a function from keys,  *)
(* an array as a sequence, a string as its characters, a number as its      *)
(* digits and a constant as its name.  No text explored holds a backslash   *)
(* or an exponent, and the decoder below refuses them.                      *)
(***************************************************************************)
Whitespace == {" ", "\n", "\t", "\r"}

DigitChars == {Digits[i] : i \in 1..10}

\* the class \w of the regular expressions
WordChars ==
    DigitChars \cup {UpperChars[i] : i \in 1..26} \cup {LowerChars[i] : i \in 1..26} \cup {"_"}

First(S) == CHOOSE x \in S : \A y \in S : x <= y

Last(S) == CHOOSE x \in S : \A y \in S : x >= y

\* the first position from p on whose character is not in chars
SkipWhile(s, p, chars) == First({q \in p..(Len(s) + 1) : At(s, q) \notin chars})

\* str.strip(chars)
strip(s, chars) ==
    With({i \in 1..Len(s) : s[i] \notin chars}, LAMBDA keep :
        IF keep = {} THEN <<>> ELSE SubSeq(s, First(keep), Last(keep)))

\* the grave accent, which a string of this language cannot hold, written as a word
Backtick == "grave"

IsFence(s, p) == At(s, p) = Backtick /\ At(s, p + 1) = Backtick /\ At(s, p + 2) = Backtick

\* the characters of s at the positions in keep, in their order
Keep(s, keep) ==
    With(SelectSeq([i \in 1..Len(s) |-> <<i, s[i]>>], LAMBDA x : x[1] \in keep),
         LAMBDA kept : [k \in 1..Len(kept) |-> kept[k][2]])

\* the substitution of client.py:183: at the start of every line, three
\* backticks, the word characters and the white space that follow are removed
sub_opening_fence(s) ==
    With({i \in 1..Len(s) : (i = 1 \/ s[i - 1] = "\n") /\ IsFence(s, i)}, LAMBDA starts :
        With(UNION {i..(SkipWhile(s, SkipWhile(s, i + 3, WordChars), Whitespace) - 1) :
                        i \in starts},
             LAMBDA removed : Keep(s, (1..Len(s)) \ removed)))

\* where a match of three backticks and white space up to a line end, begun
\* at k, ends, and 0 when there is none: the white space runs to the end of
\* the text, or back to its last line end
closing_fence_end(s, k) ==
    IF ~IsFence(s, k) THEN 0
    ELSE With(SkipWhile(s, k + 3, Whitespace), LAMBDA e :
            IF e > Len(s) THEN e
            ELSE With({j \in (k + 3)..(e - 1) : s[j] = "\n"}, LAMBDA ends :
                    IF ends = {} THEN 0 ELSE Last(ends)))

\* the substitution of client.py:184: three backticks with the white space up
\* to a line end, and the line end before them if there is one, are removed
sub_closing_fence(s) ==
    With({k \in 1..Len(s) : closing_fence_end(s, k) # 0}, LAMBDA starts :
        With(UNION {(IF At(s, k - 1) = "\n" THEN k - 1 ELSE k)..(closing_fence_end(s, k) - 1) :
                        k \in starts},
             LAMBDA removed : Keep(s, (1..Len(s)) \ removed)))

\* client.py:179-187
clean(text) ==
    With(strip(text, Whitespace), LAMBDA stripped :
        With(sub_opening_fence(stripped), LAMBDA without_opening :
            With(sub_closing_fence(without_opening), LAMBDA without_closing :
                strip(strip(without_closing, {Backtick}), Whitespace))))

\* re.search of open .* close with re.DOTALL: from the first open to the last close
search(s, open, close) ==
    With({i \in 1..Len(s) : s[i] = open}, LAMBDA opens :
        With({i \in 1..Len(s) : s[i] = close}, LAMBDA closes :
            IF opens # {} /\ closes # {} /\ First(opens) < Last(closes)
            THEN [found |-> TRUE, group |-> SubSeq(s, First(opens), Last(closes))]
            ELSE [found |-> FALSE]))

\* the candidate span, client.py:191-200
json_text(cleaned) ==
    With(search(cleaned, "{", "}"), LAMBDA json_match :
        IF json_match.found THEN json_match.group
        ELSE With(search(cleaned, "[", "]"), LAMBDA array_match :
                IF array_match.found THEN array_match.group ELSE cleaned))

\* the substitution of client.py:209: every comma that white space and a
\* closing brace or bracket follow is removed
fixed_json(s) ==
    With({i \in 1..Len(s) :
            s[i] = "," /\ At(s, SkipWhile(s, i + 1, Whitespace)) \in {"}", "]"}},
         LAMBDA commas : Keep(s, (1..Len(s)) \ commas))

(***************************************************************************)
(* json.loads as client.py:204 and :210 call it                             *)
(***************************************************************************)
Fail == [ok |-> FALSE]

Ok(v, p) == [ok |-> TRUE, v |-> v, p |-> p]

StartsWith(s, p, w) == p + Len(w) - 1 <= Len(s) /\ SubSeq(s, p, p + Len(w) - 1) = w

\* a string literal that opens at p
scanstring(s, p) ==
    With({q \in (p + 1)..Len(s) : s[q] = "\""}, LAMBDA quotes :
        IF quotes = {} THEN Fail
        ELSE With(First(quotes), LAMBDA q :
                IF \E k \in (p + 1)..(q - 1) : s[k] \in {"\n", "\t", "\r", "\\"}
                THEN Fail
                ELSE Ok([t |-> "string", v |-> SubSeq(s, p + 1, q - 1)], q + 1)))

\* the digits of a fraction without its trailing zeros
Significant(d) ==
    With({i \in 1..Len(d) : d[i] # "0"}, LAMBDA nonzero :
        IF nonzero = {} THEN <<>> ELSE SubSeq(d, 1, Last(nonzero)))

\* the number written as sign, integer part int and fraction frac: equal
\* numbers give equal values
Number(negative, int, frac) ==
    (IF negative /\ (int # <<"0">> \/ frac # <<>>) THEN <<"-">> ELSE <<>>)
        \o int \o (IF frac = <<>> THEN <<>> ELSE <<".">> \o frac)

\* a number literal at p: a sign if any, an integer part without leading
\* zeros, a fraction if any
scan_number(s, p) ==
    With(IF At(s, p) = "-" THEN p + 1 ELSE p, LAMBDA b :
        IF ~IsDigit(At(s, b)) THEN Fail
        ELSE With(IF s[b] = "0" THEN b + 1 ELSE SkipWhile(s, b, DigitChars), LAMBDA e :
            With(IF At(s, e) = "." /\ IsDigit(At(s, e + 1))
                 THEN SkipWhile(s, e + 1, DigitChars) ELSE e, LAMBDA f :
                IF At(s, f) \in {"e", "E"} THEN Fail
                ELSE Ok([t |-> "number",
                         v |-> Number(At(s, p) = "-", SubSeq(s, b, e - 1),
                                      Significant(SubSeq(s, e + 1, f - 1)))], f))))

ConstantNull == <<"n", "u", "l", "l">>
ConstantTrue == <<"t", "r", "u", "e">>
ConstantFalse == <<"f", "a", "l", "s", "e">>

\* dict[key] = value
Put(d, key, value) ==
    [k \in DOMAIN d \cup {key} |-> IF k = key THEN value ELSE d[k]]

RECURSIVE scan_once(_, _), JSONObject(_, _, _), JSONArray(_, _, _)
\* the value that begins at p
scan_once(s, p) ==
    CASE At(s, p) = "\"" -> scanstring(s, p)
      [] At(s, p) = "{" ->
            With(SkipWhile(s, p + 1, Whitespace), LAMBDA q :
                IF At(s, q) = "}" THEN Ok([t |-> "object", v |-> <<>>], q + 1)
                ELSE JSONObject(s, q, <<>>))
      [] At(s, p) = "[" ->
            With(SkipWhile(s, p + 1, Whitespace), LAMBDA q :
                IF At(s, q) = "]" THEN Ok([t |-> "array", v |-> <<>>], q + 1)
                ELSE JSONArray(s, q, <<>>))
      [] StartsWith(s, p, ConstantNull) -> Ok([t |-> "constant", v |-> ConstantNull], p + 4)
      [] StartsWith(s, p, ConstantTrue) -> Ok([t |-> "constant", v |-> ConstantTrue], p + 4)
      [] StartsWith(s, p, ConstantFalse) -> Ok([t |-> "constant", v |-> ConstantFalse], p + 5)
      [] At(s, p) = "-" \/ IsDigit(At(s, p)) -> scan_number(s, p)
      [] OTHER -> Fail

\* the members of an object from the key at q on, pairs being those read so far
JSONObject(s, q, pairs) ==
    IF At(s, q) # "\"" THEN Fail
    ELSE With(scanstring(s, q), LAMBDA key :
        IF ~key.ok THEN Fail
        ELSE With(SkipWhile(s, key.p, Whitespace), LAMBDA c :
            IF At(s, c) # ":" THEN Fail
            ELSE With(scan_once(s, SkipWhile(s, c + 1, Whitespace)), LAMBDA value :
                IF ~value.ok THEN Fail
                ELSE With(SkipWhile(s, value.p, Whitespace), LAMBDA d :
                    IF At(s, d) = "}"
                    THEN Ok([t |-> "object", v |-> Put(pairs, key.v.v, value.v)], d + 1)
                    ELSE IF At(s, d) # "," THEN Fail
                    ELSE JSONObject(s, SkipWhile(s, d + 1, Whitespace),
                                    Put(pairs, key.v.v, value.v))))))

\* the elements of an array from the value at q on, values being those read so far
JSONArray(s, q, values) ==
    With(scan_once(s, q), LAMBDA value :
        IF ~value.ok THEN Fail
        ELSE With(SkipWhile(s, value.p, Whitespace), LAMBDA d :
            IF At(s, d) = "]"
            THEN Ok([t |-> "array", v |-> Append(values, value.v)], d + 1)
            ELSE IF At(s, d) # "," THEN Fail
            ELSE JSONArray(s, SkipWhile(s, d + 1, Whitespace), Append(values, value.v))))

\* json.loads(s): one value, white space around it, nothing else
loads(s) ==
    With(scan_once(s, SkipWhile(s, 1, Whitespace)), LAMBDA r :
        IF ~r.ok THEN Raise("JSONDecodeError")
        ELSE IF SkipWhile(s, r.p, Whitespace) <= Len(s) THEN Raise("JSONDecodeError")
        ELSE Return(r.v))

\* a.is_str tells whether the argument is a str, a.text holds its characters
parse_json_response(a) ==
    IF ~a.is_str \/ a.text = <<>> THEN Raise("ValueError")
    ELSE With(json_text(clean(a.text)), LAMBDA candidate :
        With(loads(candidate), LAMBDA strict :
            IF ~strict.raised THEN strict
            ELSE With(loads(fixed_json(candidate)), LAMBDA repaired :
                    IF ~repaired.raised THEN repaired ELSE Raise("ValueError"))))

(***************************************************************************)
(* parse_json_response on replies of the language model                     *)
(***************************************************************************)
\* the payloads of the replies explored
PayloadPlain == <<"{", "\"", "a", "\"", ":", " ", "1", "}">>   \* {"a": 1}
PayloadTrailingComma == <<"{", "\"", "a", "\"", ":", " ", "1", ",", "}">>   \* {"a": 1,}
PayloadCommaInString == <<"{", "\"", "a", "\"", ":", " ", "\"", "x", ",", "}", "\"", ",", " ", "\"", "b", "\"", ":", " ", "1", ",", "}">>   \* {"a": "x,}", "b": 1,}
PayloadCommaInStringStrict == <<"{", "\"", "a", "\"", ":", " ", "\"", "x", ",", "}", "\"", "}">>   \* {"a": "x,}"}
PayloadArguments == <<"{", "\"", "l", "o", "c", "a", "t", "i", "o", "n", "\"", ":", " ", "\"", "L", "A", "\"", ",", " ", "\"", "m", "i", "n", "_", "r", "a", "t", "i", "n", "g", "\"", ":", " ", "4", ".", "0", "}">>   \* {"location": "LA", "min_rating": 4.0}
PayloadArrayTrailingComma == <<"[", "1", ",", " ", "2", ",", "]">>   \* [1, 2,]
PayloadArray == <<"[", "1", ",", " ", "2", "]">>   \* [1, 2]
PayloadNested == <<"{", "\"", "a", "\"", ":", " ", "[", "1", ",", " ", "2", ",", "]", ",", " ", "\"", "b", "\"", ":", " ", "{", "\"", "c", "\"", ":", " ", "\"", "d", "\"", ",", "}", ",", "}">>   \* {"a": [1, 2,], "b": {"c": "d",},}
PayloadMissingComma == <<"{", "\"", "a", "\"", ":", " ", "1", " ", "\"", "b", "\"", ":", " ", "2", "}">>   \* {"a": 1 "b": 2}
PayloadBracketInString == <<"{", "\"", "a", "\"", ":", " ", "\"", "p", ",", " ", "]", "q", "\"", " ", ",", " ", "}">>   \* {"a": "p, ]q" , }
PayloadProse == <<"n", "o", " ", "j", "s", "o", "n", " ", "h", "e", "r", "e">>   \* no json here
PayloadNumber == <<"4", "2">>   \* 42
PayloadConstants == <<"{", "\"", "a", "\"", ":", " ", "{", "\"", "b", "\"", ":", " ", "t", "r", "u", "e", "}", ",", " ", "\"", "c", "\"", ":", " ", "n", "u", "l", "l", "}">>   \* {"a": {"b": true}, "c": null}
PayloadBareKey == <<"{", "a", ":", " ", "1", "}">>   \* {a: 1}
PayloadNothing == <<>>
PayloadTwoObjects == <<"{", "\"", "k", "\"", ":", " ", "\"", "v", "\"", "}", " ", "{", "\"", "k", "\"", ":", " ", "1", "}">>   \* {"k": "v"} {"k": 1}
Payloads ==
    {PayloadPlain,
     PayloadTrailingComma,
     PayloadCommaInString,
     PayloadCommaInStringStrict,
     PayloadArguments,
     PayloadArrayTrailingComma,
     PayloadArray,
     PayloadNested,
     PayloadMissingComma,
     PayloadBracketInString,
     PayloadProse,
     PayloadNumber,
     PayloadConstants,
     PayloadBareKey,
     PayloadNothing,
     PayloadTwoObjects}
Wrappers ==
    {<< <<>>, <<>> >>,
     << <<Backtick, Backtick, Backtick, "j", "s", "o", "n", "\n">>, <<"\n", Backtick, Backtick, Backtick>> >>,
     << <<Backtick, Backtick, Backtick, "\n">>, <<"\n", Backtick, Backtick, Backtick>> >>,
     << <<"H", "e", "r", "e", " ", "i", "s", " ", "t", "h", "e", " ", "J", "S", "O", "N", ":", "\n">>, <<"\n", "H", "o", "p", "e", " ", "t", "h", "i", "s", " ", "h", "e", "l", "p", "s", "!">> >>,
     << <<" ", " ", "\n">>, <<" ", " ">> >>,
     << <<Backtick, Backtick, Backtick, "j", "s", "o", "n", "\n">>, <<"\n", Backtick, Backtick, Backtick, "\n", "T", "h", "a", "n", "k", "s">> >>,
     << <<"S", "u", "r", "e", ":", " ">>, <<" ", "(", "s", "e", "e", " ", "[", "1", "]", ")">> >>,
     << <<"n", "o", "t", "e", " ", "{", "x", "}", " ", "t", "h", "e", "n", " ">>, <<>> >>}

\* every payload in every wrapping, and one argument that is not a str
ParseArgs ==
    {[is_str |-> TRUE, text |-> w[1] \o p \o w[2]] : w \in Wrappers, p \in Payloads}
        \cup {[is_str |-> FALSE, text |-> <<>>]}

InitParse ==
    /\ reservations_db = <<>>
    /\ files = <<>>
    /\ opened = {}
    /\ confirmations = {}
    /\ call \in {[op |-> "parse_json_response", args |-> a] : a \in ParseArgs}
    /\ result = NoResult
    /\ client = NoClient

ParseJsonResponseApply ==
    /\ call.op = "parse_json_response"
    /\ result = NoResult
    /\ result' = parse_json_response(call.args)
    /\ UNCHANGED <<reservations_db, files, opened, call, confirmations, client>>

NextParse == ParseJsonResponseApply

SpecParse == InitParse /\ [][NextParse]_vars

\* the keys and the string values a decoded value holds, at any depth
RECURSIVE Strings(_)
Strings(value) ==
    CASE value.t = "string" -> {value.v}
      [] value.t = "object" ->
            DOMAIN value.v \cup UNION {Strings(value.v[k]) : k \in DOMAIN value.v}
      [] value.t = "array" -> UNION {Strings(value.v[i]) : i \in 1..Len(value.v)}
      [] OTHER -> {}

\* str stands between two quotation marks of text
Quoted(text, str) ==
    \E p \in 1..Len(text) :
        /\ text[p] = "\""
        /\ At(text, p + Len(str) + 1) = "\""
        /\ SubSeq(text, p + 1, p + Len(str)) = str

\* the candidate span of the call in hand
Candidate == json_text(clean(call.args.text))

Fenced(payload) ==
    <<Backtick, Backtick, Backtick, "j", "s", "o", "n", "\n">> \o payload \o <<"\n", Backtick, Backtick, Backtick>>

One == [t |-> "number", v |-> <<"1">>]

\* C10: a value parse_json_response returns is what was present in the
\* candidate span: it is the strict parse of the span or, when that fails, of
\* the span after the repair pass, and every key and every string value of it
\* stands in the span as written, also one holding a comma before a closing
\* brace or bracket; a valid object in a json fence is returned as it is, and
\* {"a": 1,} gives the object with the one key a bound to 1.
ParseReturnsWhatWasPresent ==
    (call.op = "parse_json_response" /\ result # NoResult /\ ~result.raised) =>
        /\ \/ result = loads(Candidate)
           \/ loads(Candidate).raised /\ result = loads(fixed_json(Candidate))
        /\ \A str \in Strings(result.value) : Quoted(Candidate, str)
        /\ \A p \in Payloads :
              (~loads(p).raised /\ loads(p).value.t = "object"
                    /\ call.args.text = Fenced(p)) => result = loads(p)
        /\ call.args.text = PayloadTrailingComma =>
              result.value = [t |-> "object", v |-> (<<"a">> :> One)]

\* C11: parse_json_response either returns a mapping parsed from the text or
\* raises ValueError, and nothing else: it returns no value that is not a
\* mapping; an empty text and an argument that is not a str raise, a text
\* without a JSON payload raises, and a candidate span that the decoder
\* refuses also after the repair pass raises.
ParseReturnsMappingOrFails ==
    (call.op = "parse_json_response" /\ result # NoResult) =>
        /\ \/ result = Raise("ValueError")
           \/ ~result.raised /\ result.value.t = "object"
        /\ (~call.args.is_str \/ call.args.text = <<>>) => result.raised
        /\ call.args.text = PayloadProse => result.raised
        /\ (call.args.is_str /\ call.args.text # <<>>
                /\ loads(Candidate).raised /\ loads(fixed_json(Candidate)).raised)
              => result.raised

(***************************************************************************)
(* RestaurantAssistant.run (client.py:37-136)                               *)
(* client.pc names the prompt or tool call the loop stands before; the      *)
(* locals are those of run; log holds the tool calls of the iteration in    *)
(* hand, each with what it returned; selection holds the last answer to a   *)
(* "Choose ..." prompt in it, with the length of the list offered.          *)
(***************************************************************************)
\* int(text): white space around, a sign if any, then digits only
int_of(text) ==
    With(strip(text, Whitespace), LAMBDA t :
        With(IF At(t, 1) \in {"-", "+"} THEN SubSeq(t, 2, Len(t)) ELSE t, LAMBDA digits :
            IF digits = <<>> \/ \E i \in 1..Len(digits) : ~IsDigit(digits[i])
            THEN Raise("ValueError")
            ELSE Return(IF At(t, 1) = "-" THEN 0 - NumVal(digits) ELSE NumVal(digits))))

\* l[k] for any integer k: a negative k counts from the end
getitem(l, k) ==
    With(IF k < 0 THEN Len(l) + k ELSE k, LAMBDA j :
        IF j < 0 \/ j >= Len(l) THEN Raise("IndexError") ELSE Return(l[j + 1]))

\* client.py:68-75 and 98-105: the answer text to a prompt that offers list l
select(text, l) ==
    With(int_of(text), LAMBDA choice :
        IF choice.raised THEN [kind |-> "invalid"]
        ELSE IF choice.value = 0 THEN [kind |-> "skip"]
        ELSE With(getitem(l, choice.value - 1), LAMBDA item :
                IF item.raised THEN [kind |-> "invalid"]
                ELSE [kind |-> "chosen", item |-> item.value]))

NoSelection == [kind |-> "none", text |-> <<>>, offered |-> 0]

\* the locals at the query prompt of iteration n
AtQuery(n, log, selection) ==
    [pc |-> "query", iteration |-> n, params |-> <<>>, restaurants |-> <<>>,
     chosen |-> <<>>, party_size |-> 0, date |-> <<>>, slots |-> <<>>,
     chosen_time |-> <<>>, rid |-> <<>>, log |-> log, selection |-> selection]

\* run has ended: by break (done) or by an exception nothing catches (crashed)
Ended(how, c) == [AtQuery(c.iteration, c.log, c.selection) EXCEPT !.pc = how]

\* the most iterations of the loop explored
MaxIterations == 2

Called(op, args, out) == [op |-> op, args |-> args, out |-> out]

\* x or default, where empty is the empty text
Or(x, empty, default) == IF x = empty THEN default ELSE x

Exit == <<"e", "x", "i", "t">>
DefaultEmail == <<"g", "u", "e", "s", "t", "@", "e", "x", "a", "m", "p", "l", "e", ".", "c", "o", "m">>

\* the date datetime.now() gives at client.py:82
Today == Date2

\* what is typed at the query prompt
Queries == {<<" ", "E", "x", "i", "t", " ">>, <<" ">>,
            <<"s", "u", "s", "h", "i", " ", "n", "e", "a", "r", " ", "m", "e">>}

\* what extract_params returns: an empty mapping, a value that is no mapping,
\* or search arguments
ExtractOutcomes ==
    {[kind |-> "empty"], [kind |-> "not_mapping"]}
        \cup {[kind |-> "mapping", args |-> a] : a \in FewSearchArgs}

PlaceFine == [place_id |-> "p3", name |-> "Oslo", vicinity |-> "3 Fjord Rd", rating |-> 48]

\* what the collaborators of the search do while the assistant runs: no key,
\* no results, and three records of which two are rated well enough
ClientSearchEnvs ==
    {Env(FALSE, "ok", PlacesReply([status |-> "OK", results |-> <<PlaceGood>>]), "ok"),
     Env(TRUE, "ok", PlacesReply([status |-> "ZERO_RESULTS", results |-> <<>>]), "ok"),
     Env(TRUE, "ok", PlacesReply([status |-> "OK",
                                  results |-> <<PlaceGood, PlacePoor, PlaceFine>>]), "empty")}

\* what is typed at the two "Choose ..." prompts
ChoiceTexts == {<<"0">>, <<"1">>, <<"2">>, <<"9">>, <<"-", "1">>, <<"x">>}

\* what is typed at "How many people?" and at the date prompt
PartyTexts == {<<>>, <<"4">>, <<"0">>, <<"t", "w", "o">>}
DateTexts == {<<>>, DateWords}

ClientSamples == {<<9, 1, 5, 3>>}

\* what is typed at the name and e-mail prompts
Guests == {<<"", <<>> >>, <<"Ann", EmailLower>>}

ClientUuids == {UuidA}
ClientFaults == {"none", "write"}

InitClient ==
    /\ reservations_db = <<>>
    /\ files = <<>>
    /\ opened = {}
    /\ call = NoCall
    /\ result = NoResult
    /\ confirmations = {}
    /\ client = AtQuery(0, <<>>, NoSelection)

\* client.py:42-50
ClientQuery ==
    /\ client.pc = "query"
    /\ client.iteration < MaxIterations
    /\ \E user_query \in Queries, extracted \in ExtractOutcomes :
          client' =
              IF strip(user_query, Whitespace) = <<>>
                    \/ lower(strip(user_query, Whitespace)) = Exit
              THEN Ended("done", client)
              ELSE IF extracted.kind = "empty"
              THEN AtQuery(client.iteration + 1, <<>>, NoSelection)
              ELSE [AtQuery(client.iteration + 1, <<>>, NoSelection)
                        EXCEPT !.pc = "search", !.params = extracted]
    /\ UNCHANGED <<reservations_db, files, opened, call, result, confirmations>>

\* client.py:53-58; call_tool raises on arguments that are no mapping
ClientSearch ==
    /\ client.pc = "search"
    /\ IF client.params.kind # "mapping"
       THEN /\ client' = Ended("crashed", client)
            /\ UNCHANGED <<call, result>>
       ELSE \E env \in ClientSearchEnvs :
              \E out \in {search_restaurants(client.params.args, env)} :
                \E log \in {Append(client.log,
                                    Called("search_restaurants", client.params.args, out.value))} :
                  /\ call' = [op |-> "search_restaurants", args |-> client.params.args,
                              env |-> env]
                  /\ result' = out
                  /\ client' =
                        IF Get(out.value, "restaurants", <<>>) = <<>>
                        THEN AtQuery(client.iteration, log, client.selection)
                        ELSE [client EXCEPT !.pc = "choose", !.restaurants = out.value,
                                            !.log = log]
    /\ UNCHANGED <<reservations_db, files, opened, confirmations>>

\* client.py:68-75
ClientChoose ==
    /\ client.pc = "choose"
    /\ \E text \in ChoiceTexts :
          \E picked \in {select(text, client.restaurants.restaurants)} :
            \E selection \in {[kind |-> "restaurant", text |-> text,
                                offered |-> Len(client.restaurants.restaurants)]} :
              client' =
                  IF picked.kind = "chosen"
                  THEN [client EXCEPT !.pc = "details", !.chosen = picked.item,
                                      !.selection = selection]
                  ELSE AtQuery(client.iteration, client.log, selection)
    /\ UNCHANGED <<reservations_db, files, opened, call, result, confirmations>>

\* client.py:77-94; int() of the party size is outside every try block
ClientSlots ==
    /\ client.pc = "details"
    /\ \E party \in PartyTexts, date \in DateTexts, sample \in ClientSamples :
          \E party_size \in {IF strip(party, Whitespace) = <<>> THEN Return(2)
                              ELSE int_of(strip(party, Whitespace))} :
            IF party_size.raised
            THEN /\ client' = Ended("crashed", client)
                 /\ UNCHANGED <<call, result>>
            ELSE \E slot_params \in {[restaurant_name |-> client.chosen.name,
                                       date |-> Or(strip(date, Whitespace), <<>>, Today),
                                       party_size |-> party_size.value]} :
                   \E out \in {get_available_slots(slot_params, sample)} :
                     \E log \in {Append(client.log,
                                         Called("get_available_slots", slot_params, out.value))} :
                       /\ call' = [op |-> "get_available_slots", args |-> slot_params,
                                   env |-> sample]
                       /\ result' = out
                       /\ client' =
                             IF Get(out.value, "available_slots", <<>>) = <<>>
                             THEN AtQuery(client.iteration, log, client.selection)
                             ELSE [client EXCEPT !.pc = "pick",
                                                 !.party_size = slot_params.party_size,
                                                 !.date = slot_params.date,
                                                 !.slots = out.value.available_slots,
                                                 !.log = log]
    /\ UNCHANGED <<reservations_db, files, opened, confirmations>>

\* client.py:98-105
ClientPick ==
    /\ client.pc = "pick"
    /\ \E text \in ChoiceTexts :
          \E picked \in {select(text, client.slots)} :
            \E selection \in {[kind |-> "slot", text |-> text,
                                offered |-> Len(client.slots)]} :
              client' =
                  IF picked.kind = "chosen"
                  THEN [client EXCEPT !.pc = "book", !.chosen_time = picked.item,
                                      !.selection = selection]
                  ELSE AtQuery(client.iteration, client.log, selection)
    /\ UNCHANGED <<reservations_db, files, opened, call, result, confirmations>>

\* client.py:107-128
ClientBook ==
    /\ client.pc = "book"
    /\ \E guest \in Guests, token \in ClientUuids :
          \E reservation_params \in
                {Booking(client.chosen.name, client.chosen.address, client.date,
                         client.chosen_time, client.party_size,
                         Or(guest[1], "", "Guest"), Or(guest[2], <<>>, DefaultEmail), "")} :
            \E r \in {make_reservation(reservations_db, reservation_params, token)} :
              \E log \in {Append(client.log,
                                  Called("make_reservation", reservation_params, r.out.value))} :
                /\ call' = [op |-> "make_reservation", args |-> reservation_params,
                            env |-> token]
                /\ result' = r.out
                /\ reservations_db' = r.db
                /\ confirmations' = Confirmed(confirmations, r.out)
                /\ client' =
                      IF Get(r.out.value, "reservation_id", <<>>) = <<>>
                      THEN AtQuery(client.iteration, log, client.selection)
                      ELSE [client EXCEPT !.pc = "invite",
                                          !.rid = r.out.value.reservation_id, !.log = log]
    /\ UNCHANGED <<files, opened>>

\* client.py:128-136
ClientInvite ==
    /\ client.pc = "invite"
    /\ \E fault \in ClientFaults :
          \E a \in {[reservation_id |-> client.rid]} :
            \E r \in {generate_calendar_invite(reservations_db, files, opened, a, fault)} :
              /\ call' = [op |-> "generate_calendar_invite", args |-> a, env |-> fault]
              /\ result' = r.out
              /\ files' = r.files
              /\ opened' = r.opened
              /\ client' = AtQuery(client.iteration,
                                   Append(client.log,
                                          Called("generate_calendar_invite", a, r.out.value)),
                                   client.selection)
    /\ UNCHANGED <<reservations_db, confirmations>>

NextClient ==
    \/ ClientQuery
    \/ ClientSearch
    \/ ClientChoose
    \/ ClientSlots
    \/ ClientPick
    \/ ClientBook
    \/ ClientInvite

SpecClient == InitClient /\ [][NextClient]_vars

\* C12: every stored reservation has a party size that is a positive integer.
PartySizeIsPositive ==
    \A i \in 1..Len(reservations_db) : reservations_db[i].party_size > 0

ToolOrder ==
    <<"search_restaurants", "get_available_slots", "make_reservation",
      "generate_calendar_invite">>

\* text names one of the n entries a "Choose ..." prompt offers, numbered from 1
Offered(text, n) == \E k \in 1..n : strip(text, Whitespace) = Pad(k, 1)

\* C13: in every iteration of the assistant's loop the tool calls are issued in
\* the order search_restaurants, get_available_slots, make_reservation,
\* generate_calendar_invite, each at most once; the slot lookup follows a
\* search that returned restaurants and names one of them; the reservation
\* follows a lookup that returned slots and takes one of them as its time;
\* the invite follows a reservation that returned an identifier and gives
\* that identifier; and after a search without restaurants, a lookup without
\* slots, or an answer to a choice prompt that is zero or names no offered
\* entry, the loop is back at the query prompt with no further tool call.
ClientCallsInOrder ==
    client.pc # "none" =>
      \A log \in {client.log} :
        /\ Len(log) <= 4
        /\ \A i \in 1..Len(log) : log[i].op = ToolOrder[i]
        /\ Len(log) >= 2 =>
              \E i \in 1..Len(Get(log[1].out, "restaurants", <<>>)) :
                  log[2].args.restaurant_name = log[1].out.restaurants[i].name
        /\ Len(log) >= 3 =>
              \E i \in 1..Len(Get(log[2].out, "available_slots", <<>>)) :
                  log[3].args.time = log[2].out.available_slots[i]
        /\ Len(log) = 4 =>
              /\ "reservation_id" \in DOMAIN log[3].out
              /\ log[4].args = [reservation_id |-> log[3].out.reservation_id]
        /\ (Len(log) >= 1 /\ Get(log[1].out, "restaurants", <<>>) = <<>>) =>
              Len(log) = 1 /\ client.pc \in {"query", "done"}
        /\ (Len(log) >= 2 /\ Get(log[2].out, "available_slots", <<>>) = <<>>) =>
              Len(log) = 2 /\ client.pc \in {"query", "done"}
        /\ (client.selection.kind = "restaurant"
                /\ ~Offered(client.selection.text, client.selection.offered)) =>
              Len(log) = 1 /\ client.pc \in {"query", "done"}
        /\ (client.selection.kind = "slot"
                /\ ~Offered(client.selection.text, client.selection.offered)) =>
              Len(log) = 2 /\ client.pc \in {"query", "done"}

====
